---- MODULE Spec2Model ----
(***************************************************************************)
(* Model of src/app.py (LemmaTree): one Streamlit script that, on a        *)
(* "Generate Flowchart" click, reads the uploaded .tex file, calls the     *)
(* Gemini API, strips markdown fences from the response and keeps the      *)
(* result or an error message in st.session_state.                         *)
(*                                                                         *)
(* Text is a sequence of symbols.  The word "mermaid" is one symbol, so    *)
(* the fence literal with the language name is three backtick symbols     *)
(* followed by that symbol.  A backtick is written "BT".                   *)
(* Optional values (Python None) are sequences of length 0 or 1.           *)
(***************************************************************************)
EXTENDS Integers, Sequences, FiniteSets, TLC

VARIABLES api_key, uploaded_file, session_state, run,
          form, body, raw, once, twice

vars == <<api_key, uploaded_file, session_state, run,
          form, body, raw, once, twice>>

sessionVars == <<api_key, uploaded_file, session_state, run>>
textVars == <<form, body, raw, once, twice>>

(* ------------------------------ bounds -------------------------------- *)
MaxLen == 5        \* longest body text given to the normalizer
MaxRespLen == 1    \* longest response text returned by the generation call
MaxDocLen == 1     \* longest uploaded document, in bytes

(* --------------------------- optional values -------------------------- *)
None == <<>>
Some(x) == <<x>>

(* ------------------------------- text ---------------------------------- *)
Alphabet == {"BT", " ", "mermaid", "A"}
Whitespace == {" ", "\n"}

FENCE == <<"BT", "BT", "BT">>
MERMAID_FENCE == <<"BT", "BT", "BT", "mermaid">>

SeqsUpTo(S, n) == UNION {[1..k -> S] : k \in 0..n}

RECURSIVE lstrip(_)
lstrip(s) ==
  IF s # <<>> /\ Head(s) \in Whitespace THEN lstrip(Tail(s)) ELSE s

RECURSIVE rstrip(_)
rstrip(s) ==
  IF s # <<>> /\ s[Len(s)] \in Whitespace
  THEN rstrip(SubSeq(s, 1, Len(s) - 1)) ELSE s

strip(s) == rstrip(lstrip(s))

startswith(s, p) == Len(s) >= Len(p) /\ SubSeq(s, 1, Len(p)) = p

endswith(s, p) ==
  Len(s) >= Len(p) /\ SubSeq(s, Len(s) - Len(p) + 1, Len(s)) = p

Occurrences(s, p) ==
  {i \in 1..(Len(s) - Len(p) + 1) : SubSeq(s, i, i + Len(p) - 1) = p}

Contains(s, p) == Occurrences(s, p) # {}

Least(S) == CHOOSE i \in S : \A j \in S : i <= j
Greatest(S) == CHOOSE i \in S : \A j \in S : i >= j

\* s.split(p, 1)[1]: what follows the first occurrence of p
SplitFirstRest(s, p) ==
  SubSeq(s, Least(Occurrences(s, p)) + Len(p), Len(s))

\* s.rsplit(p, 1)[0]: what precedes the last occurrence of p
RsplitLastHead(s, p) ==
  SubSeq(s, 1, Greatest(Occurrences(s, p)) - 1)

(* ------------------------ response normalization ---------------------- *)
StripMermaidFence(g) ==
  IF startswith(strip(g), MERMAID_FENCE)
  THEN SplitFirstRest(g, MERMAID_FENCE) ELSE g

StripLeadingFence(g) ==
  IF startswith(strip(g), FENCE) THEN SplitFirstRest(g, FENCE) ELSE g

StripTrailingFence(g) ==
  IF endswith(strip(g), FENCE) THEN RsplitLastHead(g, FENCE) ELSE g

FinalStripKeep(g) == g
FinalStrip(g) == strip(g)

normalize(t) ==
  FinalStrip(StripTrailingFence(StripLeadingFence(StripMermaidFence(t))))

(* ------------------- normalization on bounded inputs ------------------ *)
Forms == {"plain", "mermaid_fenced", "bare_fenced"}

Wrap(f, b) ==
  CASE f = "plain" -> b
    [] f = "mermaid_fenced" -> MERMAID_FENCE \o b \o FENCE
    [] f = "bare_fenced" -> FENCE \o b \o FENCE

\* a two-line diagram body between newlines, as in a fenced code block
SampleBody == <<"\n", "A", "\n", "A", "\n">>

Bodies == SeqsUpTo(Alphabet, MaxLen) \cup {SampleBody}

TextInit ==
  /\ form \in Forms
  /\ body \in Bodies
  /\ raw = Wrap(form, body)
  /\ once = None
  /\ twice = None

NormalizeOnce ==
  /\ once = None
  /\ once' = Some(normalize(raw))
  /\ UNCHANGED <<form, body, raw, twice, sessionVars>>

NormalizeTwice ==
  /\ once # None
  /\ twice = None
  /\ twice' = Some(normalize(once[1]))
  /\ UNCHANGED <<form, body, raw, once, sessionVars>>

(* --------------------------- uploaded document ------------------------ *)
\* byte values an uploaded file is made of: space, "A", and 0xFF, which no
\* UTF-8 encoding contains
ByteAlphabet == {32, 65, 255}

Docs == SeqsUpTo(ByteAlphabet, MaxDocLen)

Utf8Valid(bytes) == \A i \in 1..Len(bytes) : bytes[i] < 128

CharOf(b) == IF b = 32 THEN " " ELSE IF b = 10 THEN "\n" ELSE "A"

\* uploaded_file.getvalue().decode("utf-8"), defined for valid bytes
Decode(bytes) == [i \in 1..Len(bytes) |-> CharOf(bytes[i])]

(* ------------------------------ the script ---------------------------- *)
Keys == {"", "key"}
Files == {None} \cup {Some(d) : d \in Docs}

Responses ==
  SeqsUpTo(Alphabet, MaxRespLen) \cup {Wrap("mermaid_fenced", SampleBody)}

\* disabled=(not api_key or not uploaded_file)
ButtonDisabled(k, f) == k = "" \/ f = None

ResetStateKeepResult(st) == [st EXCEPT !.error_message = None]
ResetStateKeepError(st) == [st EXCEPT !.mermaid_code = None]
\* st.session_state.mermaid_code = None; st.session_state.error_message = None
ResetState(st) == [mermaid_code |-> None, error_message |-> None]

IsEmptyContentNever(tex) == FALSE
\* not tex_content.strip()
IsEmptyContent(tex) == strip(tex) = <<>>

MissingInputWarningSwapped(k, f) ==
  IF k = "" THEN Some("UploadFile") ELSE Some("EnterApiKey")
\* elif not api_key: ... elif not uploaded_file: ...
MissingInputWarning(k, f) ==
  IF k = "" THEN Some("EnterApiKey")
  ELSE IF f = None THEN Some("UploadFile") ELSE None

OnApiErrorSilent(st) == st
\* except Exception as api_error: error_message = "Error calling Gemini API ..."
OnApiError(st) == [st EXCEPT !.error_message = Some("ApiError")]

\* st.session_state.mermaid_code = generated_text.strip()
OnSuccess(st, text) == [st EXCEPT !.mermaid_code = Some(normalize(text))]

Quiet(st, outcome) ==
  [st |-> st, outcome |-> outcome, warning |-> None,
   client_constructed |-> FALSE, prompt_built |-> FALSE,
   call_made |-> FALSE, call_kind |-> "none", ended |-> "completed"]

\* the body of "if st.sidebar.button(...)", after the reset
\*   client_ok: genai.Client(api_key=...) returns
\*   call:      what generate_content / response.text does
\*   resolves:  the expression genai.types.generation_types
\*              .BlockedPromptException evaluates without raising
Handler(k, f, st, client_ok, call, resolves) ==
  IF k # "" /\ f # None THEN
    IF ~Utf8Valid(f[1]) THEN
      Quiet([st EXCEPT !.error_message = Some("Decode")], "decode_error")
    ELSE IF IsEmptyContent(Decode(f[1])) THEN
      Quiet([st EXCEPT !.error_message = Some("EmptyFile")], "empty_file")
    ELSE IF ~client_ok THEN
      \* st.stop() raises a BaseException: no handler of the outer try
      \* takes it, and matching it evaluates the second except expression
      [Quiet([st EXCEPT !.error_message = Some("ClientInit")],
             "client_init_failed")
         EXCEPT !.ended = IF resolves THEN "stopped" ELSE "uncaught"]
    ELSE
      [Quiet(IF call.kind = "text" THEN OnSuccess(st, call.text)
             ELSE OnApiError(st),
             IF call.kind = "text" THEN "success" ELSE "call_failed")
         EXCEPT !.client_constructed = TRUE, !.prompt_built = TRUE,
                !.call_made = TRUE, !.call_kind = call.kind]
  ELSE
    [Quiet(st, "missing_input") EXCEPT !.warning = MissingInputWarning(k, f)]

CodeTruthy(st) == st.mermaid_code # None /\ st.mermaid_code[1] # <<>>
ErrorTruthy(st) == st.error_message # None

\* "Display Results or Errors"
Display(st, k, f) ==
  [shown_error |-> IF ErrorTruthy(st) THEN st.error_message ELSE None,
   shown_code |-> IF CodeTruthy(st) THEN st.mermaid_code ELSE None,
   info |-> IF CodeTruthy(st) THEN None
            ELSE IF ~ErrorTruthy(st) /\ f = None /\ k = ""
              THEN Some("ProvideBothAndClick")
            ELSE IF ~ErrorTruthy(st) /\ (f = None \/ k = "")
              THEN Some("ProvideBoth")
            ELSE None]

NoDisplay == [shown_error |-> None, shown_code |-> None, info |-> None]

\* one run of the script from top to bottom
RunResult(clicked, k, f, st0, client_ok, call, resolves) ==
  LET h == IF clicked
           THEN Handler(k, f, ResetState(st0), client_ok, call, resolves)
           ELSE Quiet(st0, "none")
      d == IF h.ended = "completed" THEN Display(h.st, k, f) ELSE NoDisplay
  IN [st |-> h.st,
      run |-> [clicked |-> clicked,
               button_disabled |-> ButtonDisabled(k, f),
               outcome |-> h.outcome,
               warning |-> h.warning,
               client_constructed |-> h.client_constructed,
               prompt_built |-> h.prompt_built,
               call_made |-> h.call_made,
               call_kind |-> h.call_kind,
               ended |-> h.ended,
               shown_error |-> d.shown_error,
               shown_code |-> d.shown_code,
               info |-> d.info,
               prior_result |-> st0.mermaid_code,
               prior_error |-> st0.error_message]]

NoCall == [kind |-> "none", text |-> <<>>]

RunScript(clicked, k, f, client_ok, call, resolves) ==
  LET r == RunResult(clicked, k, f, session_state, client_ok, call, resolves)
  IN /\ api_key' = k
     /\ uploaded_file' = f
     /\ session_state' = r.st
     /\ run' = r.run
     /\ UNCHANGED textVars

\* if "mermaid_code" not in st.session_state: ... = None (and error_message)
InitialState == [mermaid_code |-> None, error_message |-> None]

SessionInit ==
  /\ api_key = ""
  /\ uploaded_file = None
  /\ session_state = InitialState
  /\ run = RunResult(FALSE, "", None, InitialState, TRUE, NoCall, TRUE).run

\* the button rendered by the previous run could be clicked
ButtonClickable == ~run.button_disabled

\* a widget value changes and the script reruns; the button returns False
Rerun ==
  \E k \in Keys, f \in Files :
    RunScript(FALSE, k, f, TRUE, NoCall, TRUE)

\* the click arrives together with a widget change that removes an input
GenerateMissingInput ==
  \E k \in Keys, f \in Files :
    /\ ButtonClickable
    /\ k = "" \/ f = None
    /\ RunScript(TRUE, k, f, TRUE, NoCall, TRUE)

GenerateUndecodable ==
  \E f \in Files :
    /\ ButtonClickable
    /\ f # None /\ ~Utf8Valid(f[1])
    /\ RunScript(TRUE, "key", f, TRUE, NoCall, TRUE)

GenerateEmptyFile ==
  \E f \in Files :
    /\ ButtonClickable
    /\ f # None /\ Utf8Valid(f[1]) /\ strip(Decode(f[1])) = <<>>
    /\ RunScript(TRUE, "key", f, TRUE, NoCall, TRUE)

HasContent(f) == f # None /\ Utf8Valid(f[1]) /\ strip(Decode(f[1])) # <<>>

GenerateClientInitFails ==
  \E f \in Files, resolves \in BOOLEAN :
    /\ ButtonClickable
    /\ HasContent(f)
    /\ RunScript(TRUE, "key", f, FALSE, NoCall, resolves)

GenerateCallRaises ==
  \E f \in Files, kind \in {"raises_blocked", "raises_other"} :
    /\ ButtonClickable
    /\ HasContent(f)
    /\ RunScript(TRUE, "key", f, TRUE, [kind |-> kind, text |-> <<>>], TRUE)

\* response.text is None, so generated_text.strip() raises AttributeError
GenerateNoText ==
  \E f \in Files :
    /\ ButtonClickable
    /\ HasContent(f)
    /\ RunScript(TRUE, "key", f, TRUE, [kind |-> "no_text", text |-> <<>>], TRUE)

GenerateSuccess ==
  \E f \in Files, t \in Responses :
    /\ ButtonClickable
    /\ HasContent(f)
    /\ RunScript(TRUE, "key", f, TRUE, [kind |-> "text", text |-> t], TRUE)

(* --------------------------- specifications --------------------------- *)
Init ==
  /\ SessionInit
  /\ form = "plain" /\ body = <<>> /\ raw = <<>>
  /\ once = None /\ twice = None

Next ==
  \/ Rerun
  \/ GenerateMissingInput
  \/ GenerateUndecodable
  \/ GenerateEmptyFile
  \/ GenerateClientInitFails
  \/ GenerateCallRaises
  \/ GenerateNoText
  \/ GenerateSuccess

Spec == Init /\ [][Next]_vars

NormInit == SessionInit /\ TextInit

NormNext == NormalizeOnce \/ NormalizeTwice

NormSpec == NormInit /\ [][NormNext]_vars

(* ------------------------------- claims ------------------------------- *)

\* C1: normalization is idempotent: for every raw text t,
\* normalize(normalize(t)) = normalize(t), also when t holds more than one
\* fence at the start or at the end.
C1_Idempotent == twice # None => twice = once

\* C2: for an uploaded document whose decoded text is empty or
\* whitespace-only, a generate action (with the credential entered) sets the
\* session error to the empty-file error, leaves the result absent,
\* constructs no client and makes no generation call.
C2_EmptyDocumentRejected ==
  (/\ run.clicked
   /\ api_key # ""
   /\ uploaded_file # None
   /\ Utf8Valid(uploaded_file[1])
   /\ strip(Decode(uploaded_file[1])) = <<>>)
  => /\ session_state.error_message = Some("EmptyFile")
     /\ session_state.mermaid_code = None
     /\ ~run.client_constructed
     /\ ~run.call_made

C2_Witness ==
  /\ run.clicked
  /\ api_key = "key"
  /\ uploaded_file = Some(<<32>>)
  /\ run.outcome = "empty_file"
  /\ run.prior_result # None

\* C3: when the generation call of an attempt fails (it raises, or the
\* response has no text), then at the end of the attempt the session error is
\* set and the session result is absent, whatever earlier attempts produced.
C3_CallFailureSetsError ==
  (run.call_made /\ run.call_kind # "text")
  => /\ session_state.error_message # None
     /\ session_state.mermaid_code = None

C3_Witness ==
  /\ run.call_made
  /\ run.call_kind = "no_text"
  /\ run.prior_result # None
  /\ session_state.error_message = Some("ApiError")

\* C4: when exactly one of the two inputs is missing at a generate action,
\* the matching message is reported and no generation call is made: "enter
\* your API key" with the credential missing and a document present, "upload
\* a file" with the credential present and the document missing.
C4_MissingInputReported ==
  /\ (run.clicked /\ api_key = "" /\ uploaded_file # None)
       => /\ run.warning = Some("EnterApiKey")
          /\ ~run.client_constructed /\ ~run.call_made
  /\ (run.clicked /\ api_key # "" /\ uploaded_file = None)
       => /\ run.warning = Some("UploadFile")
          /\ ~run.client_constructed /\ ~run.call_made

C4_Witness ==
  /\ run.clicked
  /\ api_key = "key"
  /\ uploaded_file = None
  /\ run.warning = Some("UploadFile")
  /\ run.outcome = "missing_input"

\* C5: when the generation call fails with a content-safety rejection, the
\* session error is the named content-safety message, not the generic
\* call-failure message.
C5_BlockedIsNamed ==
  run.call_kind = "raises_blocked"
  => session_state.error_message = Some("Blocked")

\* C6: when client construction fails, the attempt reports it (the session
\* error holds the client-initialization message and the error display shows
\* it) and halts: no prompt is built and no generation call is made.
C6_ClientInitReported ==
  run.outcome = "client_init_failed"
  => /\ session_state.error_message = Some("ClientInit")
     /\ run.shown_error = Some("ClientInit")
     /\ ~run.prompt_built
     /\ ~run.call_made

\* C7 as stated: for every body without a fence, normalizing the body, or
\* the body between a leading fence (with or without the language name) and
\* a trailing fence, yields the body with its outer whitespace trimmed.
C7_Original ==
  (once # None /\ ~Contains(body, FENCE)) => once[1] = strip(body)

\* C7 amended: the same, except that a body wrapped in a bare fence must not
\* begin with the word "mermaid" (fence and word then read as the fence with
\* the language name).
C7_FencedBodyRecovered ==
  (/\ once # None
   /\ ~Contains(body, FENCE)
   /\ ~(form = "bare_fenced" /\ startswith(body, <<"mermaid">>)))
  => once[1] = strip(body)

C7_Witness ==
  /\ form = "mermaid_fenced"
  /\ body = SampleBody
  /\ once = Some(<<"A", "\n", "A">>)

LeadingRemovals(t) ==
  {t} \cup {SplitFirstRest(t, m) :
              m \in {p \in {FENCE, MERMAID_FENCE} : startswith(lstrip(t), p)}}

TrailingRemovals(t) ==
  {t} \cup {RsplitLastHead(t, m) :
              m \in {p \in {FENCE} : endswith(rstrip(t), p)}}

\* t with zero or one leading fence and zero or one trailing fence removed,
\* then trimmed
AtMostOneEach(t) ==
  {strip(v) : v \in UNION {TrailingRemovals(u) : u \in LeadingRemovals(t)}}

\* C8: one normalization removes at most one fence from the start and at
\* most one from the end: its output is the raw text with zero or one leading
\* and zero or one trailing fence removed, and trimmed.
C8_AtMostOneFenceEach == once # None => once[1] \in AtMostOneEach(raw)

\* C9: both session values are cleared at the start of each attempt, so
\* after an attempt (also one halted by a client-construction failure) the
\* result is present only if this attempt's call succeeded, and the error
\* only if this attempt failed.
C9_ResultOnlyFromThisAttempt ==
  run.clicked
  => /\ session_state.mermaid_code # None
          => (run.call_made /\ run.call_kind = "text")
     /\ session_state.error_message # None
          => run.outcome \in {"decode_error", "empty_file",
                              "client_init_failed", "call_failed"}

C9_Witness ==
  /\ run.clicked
  /\ run.outcome = "client_init_failed"
  /\ run.prior_result # None
  /\ session_state.mermaid_code = None

\* C10: in every reachable session state the result and the error are never
\* both non-empty.
C10_ResultErrorExclusive == ~(CodeTruthy(session_state) /\ ErrorTruthy(session_state))

C10_Witness ==
  /\ run.outcome = "success"
  /\ run.prior_error # None
  /\ CodeTruthy(session_state)
  /\ session_state.error_message = None

====
